---- MODULE Spec2Model ----
(***************************************************************************)
(* Model of message_sender.py: the WhatsAppSender class.                   *)
(*                                                                         *)
(*   Spec      the batch runner: construction of senders, process_excel    *)
(*             over a table fixed at Init, one action per loop iteration.  *)
(*   SpecSend  direct calls of clean_phone_number and                      *)
(*             send_template_message on arguments drawn at Init.           *)
(*                                                                         *)
(* Strings are sequences of one-character strings.  The character "sup2"   *)
(* stands for U+00B2 SUPERSCRIPT TWO, for which Python's str.isdigit is    *)
(* True and str.isdecimal is False.                                        *)
(***************************************************************************)
EXTENDS Integers, Sequences, FiniteSets, TLC

VARIABLES env, handlers, instances, columns, rows, pc, index, total_rows,
          results, returned, calls, sent, events, fileLog, consoleLog,
          call, cleaned

\* env          META_ACCESS_TOKEN / PHONE_NUMBER_ID set in the environment
\* handlers     number of file and of console handlers on the root logger
\* instances    WhatsAppSender objects constructed so far
\* columns      df.columns
\* rows         the rows of df, each a record of its cells
\* pc           "idle", "loop", "done" (process_excel returned), "raised"
\*              (process_excel raised), "config_error" (the constructor
\*              raised); "call", "send_returned", "send_raised" in SpecSend
\* index        the loop's index (0-based, as df.iterrows yields it)
\* total_rows   len(df)
\* results      the dict accumulated by process_excel
\* returned     the value returned by process_excel, when it has returned
\* calls        history: the calls of send_template_message, with the
\*              provider's answer and what the call did
\* sent         history: the JSON payloads posted
\* events       history: the POSTs and the sleeps, in program order
\* fileLog      the records written to the log file
\* consoleLog   the records written to the console
\* call         the arguments of the direct call (SpecSend)
\* cleaned      the result of the direct clean_phone_number call (SpecSend)
vars == <<env, handlers, instances, columns, rows, pc, index, total_rows,
          results, returned, calls, sent, events, fileLog, consoleLog,
          call, cleaned>>

-----------------------------------------------------------------------------
(* Bounds *)

MaxRows == 3
MaxInstances == 2
MaxLen == 3

-----------------------------------------------------------------------------
(* Python values: cells of the table, parameter values, phone arguments.   *)

StrV(s) == [t |-> "str", s |-> s]
IntV(s) == [t |-> "int", s |-> s]
FloatV(s) == [t |-> "float", s |-> s]
NaN == [t |-> "nan", s |-> <<>>]

\* builtin str(): identity on str, decimal rendering of an int, "<int>.0"
\* for a whole-number float (s holds the digits of its integer part), "nan"
\* for the missing-cell marker.
PyStr(v) ==
    CASE v.t = "str" -> v.s
      [] v.t = "int" -> v.s
      [] v.t = "float" -> v.s \o <<".", "0">>
      [] v.t = "nan" -> <<"n", "a", "n">>

\* pandas.notna on a scalar cell
notna(v) == v.t # "nan"

AsciiDigits == {"0", "1", "2", "3", "4", "5", "6", "7", "8", "9"}

\* str.isdigit: true of every character with Numeric_Type Digit or Decimal,
\* which includes superscript digits.
isdigit(c) == c \in AsciiDigits \cup {"sup2"}

\* ''.join(filter(str.isdigit, str(phone)))
clean_phone_number(phone) == SelectSeq(PyStr(phone), isdigit)

-----------------------------------------------------------------------------
(* A dict is a sequence of [k, v] pairs with distinct keys, in insertion   *)
(* order; the params argument is [none |-> TRUE] for None.                 *)

NoneParams == [none |-> TRUE, items |-> <<>>]
Dict(items) == [none |-> FALSE, items |-> items]

\* truthiness of `params` (None and {} are falsy)
Truthy(params) == ~params.none /\ Len(params.items) > 0

TextParameters(items) ==
    [i \in 1..Len(items) |-> [type |-> "text", text |-> PyStr(items[i].v)]]

BodyComponent(params) ==
    [type |-> "body", parameters |-> TextParameters(params.items)]

\* variant: components attached without testing `params`
MessageDataAlways(to_phone, template_name, params) ==
    [messaging_product |-> "whatsapp",
     to |-> to_phone,
     type |-> "template",
     template |-> [name |-> template_name,
                   language |-> [code |-> "en"],
                   components |-> <<BodyComponent(params)>>]]

\* message_data, with "components" added under `if params:`
MessageData(to_phone, template_name, params) ==
    IF Truthy(params)
    THEN [messaging_product |-> "whatsapp",
          to |-> to_phone,
          type |-> "template",
          template |-> [name |-> template_name,
                        language |-> [code |-> "en"],
                        components |-> <<BodyComponent(params)>>]]
    ELSE [messaging_product |-> "whatsapp",
          to |-> to_phone,
          type |-> "template",
          template |-> [name |-> template_name,
                        language |-> [code |-> "en"]]]

-----------------------------------------------------------------------------
(* The provider's answer to one POST.                                      *)

Outcomes == {"ok", "ok_badjson", "http_json", "http_nojson", "network"}

\* has_response: requests.post returned; status_ok: 2xx; json_ok: the body
\* parses as JSON; body: the parsed body.
Response(outcome) ==
    CASE outcome = "ok" ->
           [has_response |-> TRUE, status_ok |-> TRUE, json_ok |-> TRUE,
            body |-> "messages"]
      [] outcome = "ok_badjson" ->
           [has_response |-> TRUE, status_ok |-> TRUE, json_ok |-> FALSE,
            body |-> "none"]
      [] outcome = "http_json" ->
           [has_response |-> TRUE, status_ok |-> FALSE, json_ok |-> TRUE,
            body |-> "error: Invalid parameter"]
      [] outcome = "http_nojson" ->
           [has_response |-> TRUE, status_ok |-> FALSE, json_ok |-> FALSE,
            body |-> "none"]
      [] outcome = "network" ->
           [has_response |-> FALSE, status_ok |-> FALSE, json_ok |-> FALSE,
            body |-> "none"]

\* Texts of the exceptions that leave send_template_message.
FailedMsg(to_phone, body) ==
    [text |-> "Failed to send message to", to |-> to_phone, body |-> body]
JSONDecodeErrorMsg ==
    [text |-> "Expecting value", to |-> <<>>, body |-> "none"]
NoError == [text |-> "", to |-> <<>>, body |-> "none"]

\* send_template_message as a function of its arguments and the provider's
\* answer: the payload posted, whether it raised, the text of the exception
\* and the level of the log line it wrote ("NONE": no line).
\*   - requests.post raising (network): e.response is None.
\*   - raise_for_status raising: e.response is the response.
\*   - response.json() raising on a 2xx: a RequestException whose response
\*     is None (requests >= 2.27).
\*   - in the handler, e.response.json() raising leaves the handler before
\*     logging.error and before raise Exception(error_msg).
Dispatch(to_phone_raw, template_name, params, outcome) ==
    LET to_phone == clean_phone_number(to_phone_raw)
        message_data == MessageData(to_phone, template_name, params)
        resp == Response(outcome)
        e_response == resp.has_response /\ ~resp.status_ok
    IN  IF resp.has_response /\ resp.status_ok /\ resp.json_ok
        THEN [payload |-> message_data, raised |-> FALSE, error |-> NoError,
              level |-> "INFO", result |-> resp.body]
        ELSE IF e_response /\ ~resp.json_ok
        THEN [payload |-> message_data, raised |-> TRUE,
              error |-> JSONDecodeErrorMsg,
              level |-> "NONE", result |-> "none"]
        ELSE [payload |-> message_data, raised |-> TRUE,
              error |-> FailedMsg(to_phone,
                                  IF e_response THEN resp.body ELSE "none"),
              level |-> "ERROR", result |-> "none"]

-----------------------------------------------------------------------------
(* Logging: the root logger's handlers.                                    *)

\* logging.basicConfig adds the file handler only when the root logger has
\* no handler yet; a console handler is then added unconditionally.
SetupLogging(h) ==
    [file |-> IF h.file + h.console = 0 THEN 1 ELSE h.file,
     console |-> h.console + 1]

Repeat(x, n) == [i \in 1..n |-> x]

\* one logging call: the record goes to every handler of the root logger
LogTo(log, n, line) == log \o Repeat(line, n)

Line(level, origin, attempt) ==
    [level |-> level, origin |-> origin, attempt |-> attempt]

DispatcherLines(d, attempt) ==
    IF d.level = "NONE" THEN <<>> ELSE <<Line(d.level, "dispatcher", attempt)>>

RECURSIVE LogAll(_, _, _)
LogAll(log, n, lines) ==
    IF lines = <<>> THEN log
    ELSE LogAll(LogTo(log, n, Head(lines)), n, Tail(lines))

-----------------------------------------------------------------------------
(* The table read from the spreadsheet: df.columns and the rows.           *)

required_columns == <<"phone_number", "template_name">>

Range(s) == {s[i] : i \in 1..Len(s)}

\* variant: any() in place of all()
HasSomeRequiredColumn(cols) ==
    \E i \in 1..Len(required_columns) : required_columns[i] \in Range(cols)

\* all(col in df.columns for col in required_columns)
HasRequiredColumns(cols) ==
    \A i \in 1..Len(required_columns) : required_columns[i] \in Range(cols)

Layouts ==
    { <<"phone_number", "template_name">>,
      <<"name", "phone_number", "code", "template_name">>,
      <<"phone_number", "name">>,
      <<"template_name", "code">>,
      <<"name", "code">> }

RowKinds ==
    { [phone_number |-> StrV(<<"+", "1", " ", "5">>), template_name |-> "welcome",
       name |-> StrV(<<"A", "n", "n">>), code |-> IntV(<<"7">>)],
      [phone_number |-> StrV(<<"n", "-", "a">>), template_name |-> "welcome",
       name |-> NaN, code |-> NaN],
      [phone_number |-> IntV(<<"1", "5">>), template_name |-> "promo",
       name |-> NaN, code |-> FloatV(<<"2">>)] }

Tables == UNION {[1..n -> RowKinds] : n \in 0..MaxRows}

\* variant: the dict comprehension without the pd.notna filter
RowParamsUnfiltered(cols, row) ==
    Dict([i \in 1..Len(SelectSeq(cols, LAMBDA c : c \notin Range(required_columns)))
            |-> LET c == SelectSeq(cols, LAMBDA x : x \notin Range(required_columns))[i]
                IN  [k |-> c, v |-> row[c]]])

\* {col: row[col] for col in df.columns
\*       if col not in required_columns and pd.notna(row[col])}
RowParams(cols, row) ==
    LET keep == SelectSeq(cols, LAMBDA c : c \notin Range(required_columns)
                                           /\ notna(row[c]))
    IN  Dict([i \in 1..Len(keep) |-> [k |-> keep[i], v |-> row[keep[i]]]])

-----------------------------------------------------------------------------
(* The summary accumulated by process_excel.                               *)

NewResults == [successful |-> 0, failed |-> 0, failures |-> <<>>]

OnSuccess(res) == [res EXCEPT !.successful = @ + 1]

\* variant: the entry is appended but failed is not incremented
OnFailureUncounted(res, row, err) ==
    [res EXCEPT !.failures = Append(@, [phone |-> row["phone_number"],
                                        error |-> err])]

\* variant: the entry is inserted at the front of failures
OnFailurePrepend(res, row, err) ==
    [res EXCEPT !.failed = @ + 1,
                !.failures = <<[phone |-> row["phone_number"],
                                error |-> err]>> \o @]

\* the except branch of the row: count, and append {phone, error}
OnFailure(res, row, err) ==
    [res EXCEPT !.failed = @ + 1,
                !.failures = Append(@, [phone |-> row["phone_number"],
                                        error |-> err])]

NoSummary == [some |-> FALSE, value |-> NewResults]

\* time.sleep(1)
SleepSeconds == 1

Post(i) == [e |-> "post", row |-> i, secs |-> 0]
Sleep(i) == [e |-> "sleep", row |-> i, secs |-> SleepSeconds]

\* variant: the send error leaves the loop and process_excel raises
AbortAfterRowFailure == "raised"

\* where the loop goes after a row whose send raised: the except clause of
\* the row catches it and the for loop goes on
AfterRowFailure == "loop"

-----------------------------------------------------------------------------
(* Arguments of the direct calls (SpecSend).                               *)

Chars == {"1", "5", "+", "-", "sup2"}

Strings == UNION {[1..n -> Chars] : n \in 0..MaxLen}

PhoneArgs ==
    {StrV(s) : s \in Strings} \cup {IntV(<<"1", "5">>), FloatV(<<"1", "5">>)}

ParamArgs ==
    { NoneParams,
      Dict(<<>>),
      Dict(<<[k |-> "name", v |-> StrV(<<"A", "n", "n">>)]>>),
      Dict(<<[k |-> "name", v |-> StrV(<<"A", "n", "n">>)],
             [k |-> "code", v |-> IntV(<<"7">>)]>>),
      Dict(<<[k |-> "code", v |-> IntV(<<"7">>)],
             [k |-> "name", v |-> StrV(<<"A", "n", "n">>)]>>),
      Dict(<<[k |-> "amount", v |-> FloatV(<<"2">>)]>>) }

NoCall == [to_phone |-> StrV(<<>>), template_name |-> "", params |-> NoneParams]
NotCleaned == [done |-> FALSE, arg |-> <<>>, out |-> <<>>, again |-> <<>>]

CallRecord(i, to_phone, template_name, params, outcome, d) ==
    [row |-> i, to_phone |-> to_phone, template_name |-> template_name,
     params |-> params, outcome |-> outcome, raised |-> d.raised,
     error |-> d.error, level |-> d.level]

-----------------------------------------------------------------------------
(* The batch runner.                                                       *)

Init ==
    /\ env \in [token : BOOLEAN, id : BOOLEAN]
    /\ handlers = [file |-> 0, console |-> 0]
    /\ instances = 0
    /\ columns \in Layouts
    /\ rows \in Tables
    /\ pc = "idle"
    /\ index = 0
    /\ total_rows = 0
    /\ results = NewResults
    /\ returned = NoSummary
    /\ calls = <<>>
    /\ sent = <<>>
    /\ events = <<>>
    /\ fileLog = <<>>
    /\ consoleLog = <<>>
    /\ call = NoCall
    /\ cleaned = NotCleaned

\* WhatsAppSender(): ValueError when a credential is unset, else the
\* instance is built and _setup_logging runs.
Construct ==
    /\ pc = "idle"
    /\ instances < MaxInstances
    /\ IF env.token /\ env.id
       THEN /\ instances' = instances + 1
            /\ handlers' = SetupLogging(handlers)
            /\ pc' = pc
       ELSE /\ pc' = "config_error"
            /\ UNCHANGED <<instances, handlers>>
    /\ UNCHANGED <<env, columns, rows, index, total_rows, results, returned,
                   calls, sent, events, fileLog, consoleLog, call, cleaned>>

\* process_excel up to the loop: read the table, validate the columns.
ReadExcel(readable) ==
    /\ pc = "idle"
    /\ instances >= 1
    /\ IF readable /\ HasRequiredColumns(columns)
       THEN /\ results' = NewResults
            /\ total_rows' = Len(rows)
            /\ index' = 0
            /\ pc' = "loop"
            /\ UNCHANGED <<fileLog, consoleLog>>
       ELSE /\ fileLog' = LogTo(fileLog, handlers.file,
                                Line("ERROR", "excel_error", 0))
            /\ consoleLog' = LogTo(consoleLog, handlers.console,
                                   Line("ERROR", "excel_error", 0))
            /\ pc' = "raised"
            /\ UNCHANGED <<results, total_rows, index>>
    /\ UNCHANGED <<env, handlers, instances, columns, rows, returned, calls,
                   sent, events, call, cleaned>>

\* one iteration of `for index, row in df.iterrows()`
ProcessRow(outcome) ==
    /\ pc = "loop"
    /\ index < total_rows
    /\ LET row == rows[index + 1]
           params == RowParams(columns, row)
           d == Dispatch(row["phone_number"], row["template_name"], params,
                         outcome)
           attempt == Len(calls) + 1
           lines == DispatcherLines(d, attempt) \o
                    (IF d.raised
                     THEN <<Line("ERROR", "row_failure", attempt)>>
                     ELSE <<Line("INFO", "progress", attempt)>>)
       IN  /\ calls' = Append(calls, CallRecord(index, row["phone_number"],
                                  row["template_name"], params, outcome, d))
           /\ sent' = Append(sent, d.payload)
           /\ fileLog' = LogAll(fileLog, handlers.file, lines)
           /\ consoleLog' = LogAll(consoleLog, handlers.console, lines)
           /\ IF d.raised
              THEN /\ results' = OnFailure(results, row, d.error)
                   /\ events' = Append(events, Post(index))
                   /\ pc' = AfterRowFailure
              ELSE /\ results' = OnSuccess(results)
                   /\ events' = IF index < total_rows - 1
                                THEN events \o <<Post(index), Sleep(index)>>
                                ELSE Append(events, Post(index))
                   /\ pc' = pc
    /\ index' = index + 1
    /\ UNCHANGED <<env, handlers, instances, columns, rows, total_rows,
                   returned, call, cleaned>>

\* the loop is exhausted: return results
Return ==
    /\ pc = "loop"
    /\ index = total_rows
    /\ returned' = [some |-> TRUE, value |-> results]
    /\ pc' = "done"
    /\ UNCHANGED <<env, handlers, instances, columns, rows, index, total_rows,
                   results, calls, sent, events, fileLog, consoleLog, call,
                   cleaned>>

Next ==
    \/ Construct
    \/ \E readable \in BOOLEAN : ReadExcel(readable)
    \/ \E outcome \in Outcomes : ProcessRow(outcome)
    \/ Return

Spec == Init /\ [][Next]_vars

-----------------------------------------------------------------------------
(* Direct calls on one constructed sender.                                 *)

InitSend ==
    /\ env = [token |-> TRUE, id |-> TRUE]
    /\ handlers = SetupLogging([file |-> 0, console |-> 0])
    /\ instances = 1
    /\ columns = <<>>
    /\ rows = <<>>
    /\ pc = "call"
    /\ index = 0
    /\ total_rows = 0
    /\ results = NewResults
    /\ returned = NoSummary
    /\ calls = <<>>
    /\ sent = <<>>
    /\ events = <<>>
    /\ fileLog = <<>>
    /\ consoleLog = <<>>
    /\ call \in [to_phone : PhoneArgs, template_name : {"welcome"},
                 params : ParamArgs]
    /\ cleaned = NotCleaned

\* sender.clean_phone_number(phone), and again on its own result
CleanCall ==
    /\ ~cleaned.done
    /\ cleaned' = [done |-> TRUE,
                   arg |-> PyStr(call.to_phone),
                   out |-> clean_phone_number(call.to_phone),
                   again |-> clean_phone_number(
                                 StrV(clean_phone_number(call.to_phone)))]
    /\ UNCHANGED <<env, handlers, instances, columns, rows, pc, index,
                   total_rows, results, returned, calls, sent, events,
                   fileLog, consoleLog, call>>

\* sender.send_template_message(to_phone, template_name, params)
DirectSend(outcome) ==
    /\ pc = "call"
    /\ LET d == Dispatch(call.to_phone, call.template_name, call.params,
                         outcome)
           attempt == Len(calls) + 1
       IN  /\ calls' = Append(calls, CallRecord(0, call.to_phone,
                                  call.template_name, call.params, outcome, d))
           /\ sent' = Append(sent, d.payload)
           /\ events' = Append(events, Post(0))
           /\ fileLog' = LogAll(fileLog, handlers.file,
                                DispatcherLines(d, attempt))
           /\ consoleLog' = LogAll(consoleLog, handlers.console,
                                   DispatcherLines(d, attempt))
           /\ pc' = IF d.raised THEN "send_raised" ELSE "send_returned"
    /\ UNCHANGED <<env, handlers, instances, columns, rows, index, total_rows,
                   results, returned, call, cleaned>>

NextSend ==
    \/ CleanCall
    \/ \E outcome \in Outcomes : DirectSend(outcome)

SpecSend == InitSend /\ [][NextSend]_vars

-----------------------------------------------------------------------------
(* Vocabulary of the properties, stated without the operators above.       *)

Count(seq, P(_)) == Cardinality({k \in 1..Len(seq) : P(seq[k])})

Raised(c) == c.raised
Returned(c) == ~c.raised

InRun == pc \in {"loop", "done"}

MissingRequired ==
    \/ \A i \in 1..Len(columns) : columns[i] # "phone_number"
    \/ \A i \in 1..Len(columns) : columns[i] # "template_name"

IsPost(ev) == ev.e = "post"
IsSleep(ev) == ev.e = "sleep"

DecimalDigits == {"0", "1", "2", "3", "4", "5", "6", "7", "8", "9"}
IsDecimal(c) == c \in DecimalDigits

\* position of a column in df.columns (the layouts have distinct names)
Pos(c) == CHOOSE i \in 1..Len(columns) : columns[i] = c

IsExtra(c) == c # "phone_number" /\ c # "template_name"

-----------------------------------------------------------------------------
\* C1: while process_excel runs and in its summary, successful is the number
\* of rows whose send returned and failed the number of rows whose send
\* raised, each row counted once, so successful + failed is the number of
\* rows processed; the returned summary covers every row of the table, and
\* is 0, 0, [] for a table without rows.
C1_CountsMatchRows ==
    /\ InRun =>
         /\ Len(calls) = index
         /\ results.successful = Count(calls, Returned)
         /\ results.failed = Count(calls, Raised)
         /\ results.successful + results.failed = index
    /\ pc = "done" =>
         /\ returned.some
         /\ returned.value.successful + returned.value.failed = Len(rows)
         /\ Len(rows) = 0 =>
              returned.value = [successful |-> 0, failed |-> 0,
                                failures |-> <<>>]

C1_Witness ==
    /\ pc = "done"
    /\ Len(rows) >= 2
    /\ returned.value.successful >= 1
    /\ returned.value.failed >= 1

\* C2: a failing send never aborts the batch: once the columns are valid the
\* run never ends in an error, the rows are sent one by one in table order,
\* each exactly once whatever the earlier outcomes, and the run returns only
\* after every row was sent.
C2_EveryRowSentInOrder ==
    /\ calls # <<>> => pc \in {"loop", "done"}
    /\ InRun =>
         /\ Len(calls) = index
         /\ Len(sent) = index
         /\ \A k \in 1..Len(calls) : calls[k].row = k - 1
         /\ LET posts == SelectSeq(events, IsPost)
            IN  /\ Len(posts) = index
                /\ \A k \in 1..Len(posts) : posts[k].row = k - 1
    /\ pc = "done" => Len(calls) = Len(rows)

C2_Witness ==
    /\ pc = "done"
    /\ Len(rows) >= 2
    /\ calls[1].raised
    /\ ~calls[2].raised

\* C3: with phone_number or template_name missing from the columns,
\* process_excel ends in an error: no send, no POST, no pause, no summary,
\* whatever the number of rows.
C3_MissingColumnsAbort ==
    MissingRequired =>
        /\ pc \in {"idle", "config_error", "raised"}
        /\ calls = <<>>
        /\ sent = <<>>
        /\ events = <<>>
        /\ ~returned.some

C3_Witness ==
    /\ pc = "raised"
    /\ MissingRequired
    /\ \E i \in 1..Len(columns) : columns[i] = "phone_number"
    /\ Len(rows) >= 2
    /\ fileLog # <<>>

\* C4: every send for a row that is not the last is followed by one pause
\* before the next send, whether it succeeded or failed, no pause follows
\* the last row, and a full run over n >= 1 rows pauses n - 1 times.
C4_PauseAfterEveryRowButLast ==
    InRun =>
        /\ \A i \in 1..Len(events) :
             IsPost(events[i]) =>
                IF events[i].row < total_rows - 1
                THEN i < Len(events) /\ IsSleep(events[i + 1])
                ELSE i = Len(events)
        /\ \A i \in 1..Len(events) :
             IsSleep(events[i]) =>
                i > 1 /\ IsPost(events[i - 1]) /\ events[i].secs = 1
        /\ (pc = "done" /\ Len(rows) >= 1) =>
             Count(events, IsSleep) = Len(rows) - 1

\* C5: every failing send posts once and raises an error that names the
\* normalized recipient and carries the provider's body exactly when there
\* is a parseable one; in process_excel the row is recorded in failures
\* with that text and the run goes on.
C5_FailureNamesRecipient ==
    /\ Len(sent) = Len(calls)
    /\ \A k \in 1..Len(calls) :
         calls[k].raised =>
            /\ calls[k].error.text = "Failed to send message to"
            /\ calls[k].error.to = clean_phone_number(calls[k].to_phone)
            /\ (calls[k].error.body # "none") <=> (calls[k].outcome = "http_json")
            /\ InRun =>
                 \E j \in 1..Len(results.failures) :
                    /\ results.failures[j].phone = calls[k].to_phone
                    /\ results.failures[j].error = calls[k].error

\* C6: failures holds exactly one entry per failed row and none for a
\* successful row, in table order; each entry carries the phone_number cell
\* of its own row and the error of its own send, which depends on that row
\* and its outcome alone.
C6_FailuresListFailedRows ==
    InRun =>
        LET failedCalls == SelectSeq(calls, Raised)
        IN  /\ Len(results.failures) = results.failed
            /\ Len(results.failures) = Len(failedCalls)
            /\ \A j \in 1..Len(failedCalls) :
                 LET c == failedCalls[j]
                     row == rows[c.row + 1]
                 IN  /\ results.failures[j].phone = row["phone_number"]
                     /\ results.failures[j].error = c.error
                     /\ c.error = Dispatch(row["phone_number"],
                                           row["template_name"], c.params,
                                           c.outcome).error
            /\ \A i, j \in 1..Len(failedCalls) :
                 i < j => failedCalls[i].row < failedCalls[j].row

C6_Witness ==
    /\ pc = "done"
    /\ results.failed >= 2
    /\ results.successful >= 1
    /\ results.failures[1].phone # results.failures[2].phone
    /\ results.failures[1].error # results.failures[2].error

\* C7: the payload has template.components exactly when params is a
\* non-empty mapping; it is then one "body" component with one text
\* parameter str(value) per value, in insertion order; "to" is the
\* normalized phone, the language code "en", the name the one given.
C7_PayloadShape ==
    \A k \in 1..Len(sent) :
       LET p == sent[k]
           c == calls[k]
           items == c.params.items
           nonEmpty == ~c.params.none /\ items # <<>>
       IN  /\ ("components" \in DOMAIN p.template) <=> nonEmpty
           /\ nonEmpty =>
                /\ Len(p.template.components) = 1
                /\ p.template.components[1].type = "body"
                /\ Len(p.template.components[1].parameters) = Len(items)
                /\ \A i \in 1..Len(items) :
                     p.template.components[1].parameters[i] =
                        [type |-> "text", text |-> PyStr(items[i].v)]
           /\ p.to = clean_phone_number(c.to_phone)
           /\ p.template.language.code = "en"
           /\ p.template.name = c.template_name
           /\ p.messaging_product = "whatsapp"
           /\ p.type = "template"

C7_Witness ==
    /\ Len(sent) = 1
    /\ Len(calls[1].params.items) = 2
    /\ calls[1].params.items[1].k = "code"
    /\ sent[1].template.components[1].parameters[1].text = <<"7">>
    /\ sent[1].to = <<"1", "5">>
    /\ calls[1].to_phone = StrV(<<"+", "1", "5">>)

\* C8: the mapping passed for a row holds exactly the columns other than
\* phone_number and template_name whose cell in that row is present, with
\* the cell as value, in column order; a row without such a cell passes an
\* empty mapping and its payload has no components.
C8_ParamsArePresentExtras ==
    \A k \in 1..Len(calls) :
       LET c == calls[k]
           row == rows[c.row + 1]
           items == c.params.items
       IN  /\ ~c.params.none
           /\ {items[i].k : i \in 1..Len(items)} =
                 {columns[i] : i \in {j \in 1..Len(columns) :
                                        /\ IsExtra(columns[j])
                                        /\ row[columns[j]] # NaN}}
           /\ \A i \in 1..Len(items) : items[i].v = row[items[i].k]
           /\ \A i, j \in 1..Len(items) :
                 i < j => Pos(items[i].k) < Pos(items[j].k)
           /\ items = <<>> => "components" \notin DOMAIN sent[k].template

C8_Witness ==
    /\ pc = "done"
    /\ Len(columns) = 4
    /\ \E k \in 1..Len(calls) : Len(calls[k].params.items) = 2
    /\ \E k \in 1..Len(calls) : Len(calls[k].params.items) = 1
    /\ \E k \in 1..Len(calls) : Len(calls[k].params.items) = 0

\* C9: for every phone string the result of clean_phone_number holds only
\* decimal digit characters, is the input's decimal digits in their order,
\* and cleaning it again changes nothing.
C9_OnlyDecimalDigits ==
    (cleaned.done /\ call.to_phone.t = "str") =>
        /\ \A i \in 1..Len(cleaned.out) : IsDecimal(cleaned.out[i])
        /\ cleaned.out = SelectSeq(cleaned.arg, IsDecimal)
        /\ cleaned.again = cleaned.out

\* C10: every call of send_template_message leaves exactly one dispatcher
\* line in the log file and exactly one on the console, INFO when the send
\* succeeded and ERROR when it failed, for every failure and however many
\* senders were constructed.
C10_OneLinePerAttempt ==
    \A k \in 1..Len(calls) :
       LET want == Line(IF calls[k].raised THEN "ERROR" ELSE "INFO",
                        "dispatcher", k)
           Mine(l) == l.origin = "dispatcher" /\ l.attempt = k
       IN  /\ Count(fileLog, Mine) = 1
           /\ Count(consoleLog, Mine) = 1
           /\ \A i \in 1..Len(fileLog) : Mine(fileLog[i]) => fileLog[i] = want
           /\ \A i \in 1..Len(consoleLog) :
                 Mine(consoleLog[i]) => consoleLog[i] = want

====
